---- MODULE Spec2Model ----
(***************************************************************************)
(* DrawDrum: a settings store (one SQLite row, app/database.py) and an     *)
(* in-process WebSocket connection registry with snapshot-on-connect and   *)
(* broadcast (app/main.py).                                                *)
(*                                                                         *)
(* Every coroutine is cut at its awaits: one action is what a handler does *)
(* between two suspensions on the event loop.  A database statement takes  *)
(* effect in the aiosqlite worker thread of its connection, so the moment  *)
(* its arguments are evaluated (on the event loop) and the moment it is    *)
(* committed are two steps.                                                *)
(*                                                                         *)
(* Encodings.  A Python dict is a function whose domain is its keys; the   *)
(* empty dict is <<>>.  A timestamp is the integer reading of the clock    *)
(* (isoformat() of an aware UTC datetime orders as the time does).  A logo *)
(* path is the sequence of the pieces it was built from, "" being <<>>.    *)
(***************************************************************************)
EXTENDS Integers, Sequences, FiniteSets, TLC

\* ------------------------------------------------------------------ bounds
\* websockets ever opened; of them, those opened while the store is edited;
\* admin actions ever received (HTTP requests and WebSocket messages)
MaxConns == 2
MaxDisplays == 1
MaxActions == 2
MaxClock == 2
MaxBoots == 2

\* --------------------------------------------------------------- constants
\* app/main.py
MAX_LOGO_SIZE_MB == 20
MAX_LOGO_SIZE_BYTES == MAX_LOGO_SIZE_MB * 1024 * 1024
DEFAULT_TEXT_COLOR == "#FFFFFF"
DEFAULT_TEXT_STYLE == "bold"
DEFAULT_DISPLAY_TEXT_SIZE == 72
DEFAULT_TIMER_SIZE == 48
DEFAULT_COLUMNS == 1
DEFAULT_PRIZE_SIZE == 72
DEFAULT_PRIZE_COLOR == "#F97316"
\* app/database.py
DB_DEFAULT_TEXT_COLOR == "#FFFFFF"
DB_DEFAULT_TEXT_STYLE == "bold"
DB_DEFAULT_DISPLAY_TEXT_SIZE == 72
DB_DEFAULT_TIMER_SIZE == 48
DB_DEFAULT_COLUMNS == 1
DB_DEFAULT_PRIZE_SIZE == 72
DB_DEFAULT_PRIZE_COLOR == "#F97316"

\* Python's None where a string is expected, and where a timestamp is.
PyNone == "<None>"
NoTimestamp == -1

\* ------------------------------------------------------------- Python bits
\* dict.get(key, default)
DictGet(d, key, default) == IF key \in DOMAIN d THEN d[key] ELSE default

\* bool(d) of a dict or of a sequence
Truthy(d) == DOMAIN d # {}

\* `x or default` on a string and on an integer
OrStr(x, default) == IF x = "" \/ x = PyNone THEN default ELSE x
OrInt(x, default) == IF x = 0 THEN default ELSE x
OrPath(x, default) == IF x = <<>> THEN default ELSE x

\* list.remove(x) guarded by `x in list`: drops the first occurrence
RECURSIVE RemoveFirst(_, _)
RemoveFirst(s, x) ==
    IF s = <<>> THEN <<>>
    ELSE IF Head(s) = x THEN Tail(s)
    ELSE <<Head(s)>> \o RemoveFirst(Tail(s), x)

Range(s) == {s[k] : k \in DOMAIN s}

\* A string an f-string builds is the sequence of its pieces, each a
\* literal or the hex digits of a uuid4 (hex = 0: a literal).
Lit(text) == [lit |-> text, hex |-> 0]
Hex(uuid) == [lit |-> "", hex |-> uuid]

\* f"logo_{uuid.uuid4().hex[:8]}{ext}", f"/uploads/{filename}", and
\* logo_path.replace("/uploads/", "")
LogoFilename(uuid, ext) == <<Lit("logo_"), Hex(uuid), Lit(ext)>>
LogoUrl(filename) == <<Lit("/uploads/")>> \o filename
StripUploads(logo_path) == SelectSeq(logo_path, LAMBDA piece : piece # Lit("/uploads/"))

\* ---------------------------------------------------------------- database
\* A database is [columns, rows]: the settings table's column names (none:
\* the table does not exist) and its rows, each a function on the columns.
NoDatabase == [columns |-> {}, rows |-> {}]

CreateColumns ==
    {"id", "passport_text", "logo_path", "text_color", "text_style",
     "display_text_size", "timer_size", "updated_at"}

Migrations ==
    << [name |-> "text_color", default |-> DB_DEFAULT_TEXT_COLOR],
       [name |-> "text_style", default |-> DB_DEFAULT_TEXT_STYLE],
       [name |-> "display_text_size", default |-> DB_DEFAULT_DISPLAY_TEXT_SIZE],
       [name |-> "timer_size", default |-> DB_DEFAULT_TIMER_SIZE],
       [name |-> "prize_text", default |-> ""],
       [name |-> "columns", default |-> DB_DEFAULT_COLUMNS],
       [name |-> "prize_size", default |-> DB_DEFAULT_PRIZE_SIZE],
       [name |-> "prize_color", default |-> DB_DEFAULT_PRIZE_COLOR] >>

\* The value a column takes in a row that does not give it: the column's
\* DEFAULT (CURRENT_TIMESTAMP for updated_at).
ColumnDefault(col, now) ==
    CASE col = "updated_at" -> now
      [] col = "passport_text" -> ""
      [] col = "logo_path" -> <<>>
      [] col = "id" -> 1
      [] OTHER -> LET k == CHOOSE j \in DOMAIN Migrations : Migrations[j].name = col
                  IN Migrations[k].default

\* CREATE TABLE IF NOT EXISTS settings (...)
CreateTable(d) ==
    IF d.columns = {} THEN [columns |-> CreateColumns, rows |-> {}] ELSE d

\* INSERT INTO settings (id, ...) VALUES (1, '', '', defaults) when COUNT(*) = 0
InsertValues ==
    [id |-> 1, passport_text |-> "", logo_path |-> <<>>,
     text_color |-> DB_DEFAULT_TEXT_COLOR, text_style |-> DB_DEFAULT_TEXT_STYLE,
     display_text_size |-> DB_DEFAULT_DISPLAY_TEXT_SIZE,
     timer_size |-> DB_DEFAULT_TIMER_SIZE]

\* EnsureRow without the COUNT(*) test: the INSERT runs at every start and
\* takes the next free id.
EnsureRow_Unchecked(d, now) ==
    [d EXCEPT !.rows = @ \cup
        {[col \in d.columns |->
            IF col = "id" THEN Cardinality(d.rows) + 1
            ELSE IF col \in DOMAIN InsertValues THEN InsertValues[col]
            ELSE ColumnDefault(col, now)]}]

EnsureRow(d, now) ==
    IF Cardinality(d.rows) = 0
    THEN [d EXCEPT !.rows =
            {[col \in d.columns |->
                IF col \in DOMAIN InsertValues THEN InsertValues[col]
                ELSE ColumnDefault(col, now)]}]
    ELSE d

\* ALTER TABLE settings ADD COLUMN name DEFAULT default
AddColumn(d, name, default) ==
    [columns |-> d.columns \cup {name},
     rows |-> {[col \in d.columns \cup {name} |->
                  IF col = name THEN default ELSE r[col]] : r \in d.rows}]

RECURSIVE Migrate(_, _)
Migrate(d, k) ==
    IF k > Len(Migrations) THEN d
    ELSE IF Migrations[k].name \notin d.columns
         THEN Migrate(AddColumn(d, Migrations[k].name, Migrations[k].default), k + 1)
         ELSE Migrate(d, k + 1)

init_db(d, now) == Migrate(EnsureRow(CreateTable(d), now), 1)

\* SELECT ... FROM settings WHERE id = 1, and the dict built from the row
get_settings(d) ==
    LET found == {r \in d.rows : r.id = 1} IN
    IF found # {}
    THEN LET row == CHOOSE r \in found : TRUE
             keys == DOMAIN row
         IN [passport_text |-> OrStr(row.passport_text, ""),
             prize_text |-> IF "prize_text" \in keys THEN row.prize_text ELSE "",
             logo_path |-> OrPath(row.logo_path, <<>>),
             text_color |-> OrStr(row.text_color, DB_DEFAULT_TEXT_COLOR),
             text_style |-> OrStr(row.text_style, DB_DEFAULT_TEXT_STYLE),
             display_text_size |-> OrInt(row.display_text_size, DB_DEFAULT_DISPLAY_TEXT_SIZE),
             timer_size |-> OrInt(row.timer_size, DB_DEFAULT_TIMER_SIZE),
             columns |-> IF "columns" \in keys THEN row.columns ELSE DB_DEFAULT_COLUMNS,
             prize_size |-> IF "prize_size" \in keys THEN row.prize_size ELSE DB_DEFAULT_PRIZE_SIZE,
             prize_color |-> IF "prize_color" \in keys THEN row.prize_color ELSE DB_DEFAULT_PRIZE_COLOR,
             updated_at |-> row.updated_at]
    ELSE [passport_text |-> "", prize_text |-> "", logo_path |-> <<>>,
          text_color |-> DB_DEFAULT_TEXT_COLOR, text_style |-> DB_DEFAULT_TEXT_STYLE,
          display_text_size |-> DB_DEFAULT_DISPLAY_TEXT_SIZE,
          timer_size |-> DB_DEFAULT_TIMER_SIZE, columns |-> DB_DEFAULT_COLUMNS,
          prize_size |-> DB_DEFAULT_PRIZE_SIZE, prize_color |-> DB_DEFAULT_PRIZE_COLOR,
          updated_at |-> NoTimestamp]

\* UPDATE settings SET <changes> WHERE id = 1
UpdateSettings(d, changes) ==
    [d EXCEPT !.rows =
        {IF r.id = 1
         THEN [col \in DOMAIN r |-> IF col \in DOMAIN changes THEN changes[col] ELSE r[col]]
         ELSE r : r \in d.rows}]

\* The SET lists of the three update functions; ts is get_utc_now() as it
\* was read when the statement's arguments were evaluated.
PassportTextChanges(text, prize, ts) ==
    IF prize # PyNone
    THEN [passport_text |-> text, prize_text |-> prize, updated_at |-> ts]
    ELSE [passport_text |-> text, updated_at |-> ts]

LogoPathChanges(path, ts) == [logo_path |-> path, updated_at |-> ts]

\* TextFormattingChanges that sets only the columns whose key is given
TextFormattingChanges_OnlyGiven(formatting, ts) ==
    LET column == [color |-> "text_color", style |-> "text_style",
                   displayTextSize |-> "display_text_size", timerSize |-> "timer_size",
                   columns |-> "columns", prizeSize |-> "prize_size",
                   prizeColor |-> "prize_color"]
        given == {column[key] : key \in DOMAIN formatting \cap DOMAIN column}
        key_of(col) == CHOOSE key \in DOMAIN column : column[key] = col
    IN [col \in given \cup {"updated_at"} |->
            IF col = "updated_at" THEN ts ELSE formatting[key_of(col)]]

TextFormattingChanges(formatting, ts) ==
    [text_color |-> DictGet(formatting, "color", DB_DEFAULT_TEXT_COLOR),
     text_style |-> DictGet(formatting, "style", DB_DEFAULT_TEXT_STYLE),
     display_text_size |-> DictGet(formatting, "displayTextSize", DB_DEFAULT_DISPLAY_TEXT_SIZE),
     timer_size |-> DictGet(formatting, "timerSize", DB_DEFAULT_TIMER_SIZE),
     columns |-> DictGet(formatting, "columns", DB_DEFAULT_COLUMNS),
     prize_size |-> DictGet(formatting, "prizeSize", DB_DEFAULT_PRIZE_SIZE),
     prize_color |-> DictGet(formatting, "prizeColor", DB_DEFAULT_PRIZE_COLOR),
     updated_at |-> ts]

\* ------------------------------------------------------------------ inputs
Conns == 1 .. MaxConns
Displays == 1 .. MaxDisplays
Https == (MaxConns + 1) .. (MaxConns + MaxActions)
Procs == Conns \cup Https

FullFormatting ==
    [color |-> "#FF0000", style |-> "italic", displayTextSize |-> 96,
     timerSize |-> 24, columns |-> 2, prizeSize |-> 64, prizeColor |-> "#00FF00"]

\* Some keys absent, and two values that Python takes for false.
PartFormatting == [color |-> "", timerSize |-> 0, columns |-> 3]

\* Request bodies of POST /api/passport, and the payloads of a WebSocket
\* passport_update.
PassportDatas ==
    { [text |-> "T1", prize |-> "P1", formatting |-> FullFormatting],
      [text |-> "T2", prize |-> "P2", formatting |-> PartFormatting],
      [text |-> "T3"],
      [text |-> "T3", formatting |-> <<>>] }

\* Request bodies of POST /api/timer, and the payloads of a timer_action.
TimerDatas ==
    { [action |-> "start", duration |-> 60],
      [action |-> "stop", duration |-> 0, timerSize |-> 36] }

\* Uploaded files: content type, len(content), extension of the file name.
UploadFiles ==
    { [content_type |-> "image/png", size |-> 1024, ext |-> ".png"],
      [content_type |-> "image/jpeg", size |-> 2048, ext |-> ""],
      [content_type |-> "text/html", size |-> 1024, ext |-> ".html"],
      [content_type |-> "image/gif", size |-> MAX_LOGO_SIZE_BYTES + 1, ext |-> ".gif"] }

allowed_types == {"image/png", "image/jpeg", "image/jpg", "image/gif", "image/webp"}

\* ------------------------------------------------------------------- state
VARIABLES
    db,                  \* the SQLite database: [columns, rows]
    uploads,             \* the file names in UPLOADS_DIR
    clock,               \* datetime.now(timezone.utc)
    started,             \* the lifespan's init_db has run
    active_connections,  \* manager.active_connections, a list
    open,                \* open[c]: the client's end of websocket c is open
    pc,                  \* where each handler is suspended
    loc,                 \* each handler's local variables
    sent,                \* sent[c]: the messages sent on websocket c, in order
    hist,                \* the committed database states, in commit order
    registered_at,       \* Len(hist) when websocket c was appended to the list
    finished,            \* the broadcast that returned last
    passports,           \* the passport updates received so far (their args)
    counters             \* [msgs, uuids, boots]: messages received, ...

vars == <<db, uploads, clock, started, active_connections, open, pc, loc, sent,
          hist, registered_at, finished, passports, counters>>

NoLocals ==
    [kind |-> "", text |-> "", prize |-> "", formatting |-> <<>>, path |-> <<>>,
     ts |-> 0, settings |-> <<>>, message |-> <<>>, i |-> 0, disconnected |-> <<>>,
     old_logo_path |-> <<>>, filename |-> <<>>, n |-> 0, before |-> {},
     commits |-> 0]

\* A broadcast is named by its handler and, on a websocket, by the number
\* of the message that asked for it.
NoBid == [by |-> 0, n |-> 0]
Bid(p) == [by |-> p, n |-> loc[p].n]
NoBroadcast == [bid |-> NoBid, before |-> {}, after |-> {}, failed |-> {}]

FreshDatabase == init_db(NoDatabase, 0)

\* The databases an earlier run of the application can have left: the
\* settings table as it was before some of the migrations, its one row
\* holding values that are not the defaults.
OldFilename == LogoFilename(0, ".png")

OldValues ==
    [id |-> 1, passport_text |-> "OLD", logo_path |-> LogoUrl(OldFilename),
     updated_at |-> 0, text_color |-> "#000000", text_style |-> "normal",
     display_text_size |-> 10, timer_size |-> 11, prize_text |-> "OLDPRIZE",
     columns |-> 4, prize_size |-> 12, prize_color |-> "#111111"]

OldColumns(k) ==
    {"id", "passport_text", "logo_path", "updated_at"}
        \cup {Migrations[j].name : j \in 1 .. k}

OldDatabase(k) ==
    [columns |-> OldColumns(k), rows |-> {[col \in OldColumns(k) |-> OldValues[col]]}]

ExistingDatabases == {NoDatabase} \cup {OldDatabase(k) : k \in 0 .. Len(Migrations)}

\* The process starts on one of them.
InitStarting ==
    /\ db \in ExistingDatabases
    /\ uploads = IF db = NoDatabase THEN {} ELSE {OldFilename}
    /\ clock = 0
    /\ started = FALSE
    /\ active_connections = <<>>
    /\ open = [c \in Conns |-> FALSE]
    /\ pc = [p \in Procs |-> IF p \in Conns THEN "new" ELSE "idle"]
    /\ loc = [p \in Procs |-> NoLocals]
    /\ sent = [c \in Conns |-> <<>>]
    /\ hist = <<db>>
    /\ registered_at = [c \in Conns |-> 0]
    /\ finished = NoBroadcast
    /\ passports = {}
    /\ counters = [msgs |-> 0, uuids |-> 0, boots |-> 0]

InitServing ==
    /\ db = FreshDatabase
    /\ uploads = {}
    /\ clock = 0
    /\ started = TRUE
    /\ active_connections = <<>>
    /\ open = [c \in Conns |-> FALSE]
    /\ pc = [p \in Procs |-> IF p \in Conns THEN "new" ELSE "idle"]
    /\ loc = [p \in Procs |-> NoLocals]
    /\ sent = [c \in Conns |-> <<>>]
    /\ hist = <<db>>
    /\ registered_at = [c \in Conns |-> 0]
    /\ finished = NoBroadcast
    /\ passports = {}
    /\ counters = [msgs |-> 0, uuids |-> 0, boots |-> 1]

\* ---------------------------------------------------------------- messages
\* InitMessage with prizeSize read from the display_text_size key
InitMessage_WrongKey(settings) ==
    [type |-> "init",
     passport_text |-> settings.passport_text,
     prize_text |-> DictGet(settings, "prize_text", ""),
     logo_path |-> settings.logo_path,
     formatting |->
        [color |-> DictGet(settings, "text_color", DEFAULT_TEXT_COLOR),
         style |-> DictGet(settings, "text_style", DEFAULT_TEXT_STYLE),
         displayTextSize |-> DictGet(settings, "display_text_size", DEFAULT_DISPLAY_TEXT_SIZE),
         timerSize |-> DictGet(settings, "timer_size", DEFAULT_TIMER_SIZE),
         columns |-> DictGet(settings, "columns", DEFAULT_COLUMNS),
         prizeSize |-> DictGet(settings, "display_text_size", DEFAULT_PRIZE_SIZE),
         prizeColor |-> DictGet(settings, "prize_color", DEFAULT_PRIZE_COLOR)]]

\* websocket_endpoint's init message
InitMessage(settings) ==
    [type |-> "init",
     passport_text |-> settings.passport_text,
     prize_text |-> DictGet(settings, "prize_text", ""),
     logo_path |-> settings.logo_path,
     formatting |->
        [color |-> DictGet(settings, "text_color", DEFAULT_TEXT_COLOR),
         style |-> DictGet(settings, "text_style", DEFAULT_TEXT_STYLE),
         displayTextSize |-> DictGet(settings, "display_text_size", DEFAULT_DISPLAY_TEXT_SIZE),
         timerSize |-> DictGet(settings, "timer_size", DEFAULT_TIMER_SIZE),
         columns |-> DictGet(settings, "columns", DEFAULT_COLUMNS),
         prizeSize |-> DictGet(settings, "prize_size", DEFAULT_PRIZE_SIZE),
         prizeColor |-> DictGet(settings, "prize_color", DEFAULT_PRIZE_COLOR)]]

\* api_update_passport: the arguments read from the body, and the broadcast
ApiPassportArgs(data) ==
    [text |-> DictGet(data, "text", ""),
     prize |-> DictGet(data, "prize", ""),
     formatting |-> DictGet(data, "formatting", <<>>)]

ApiPassportMessage(settings) ==
    [type |-> "passport_update",
     passport_text |-> settings.passport_text,
     prize_text |-> DictGet(settings, "prize_text", ""),
     formatting |->
        [color |-> DictGet(settings, "text_color", DEFAULT_TEXT_COLOR),
         style |-> DictGet(settings, "text_style", DEFAULT_TEXT_STYLE),
         displayTextSize |-> DictGet(settings, "display_text_size", DEFAULT_DISPLAY_TEXT_SIZE),
         timerSize |-> DictGet(settings, "timer_size", DEFAULT_TIMER_SIZE),
         columns |-> DictGet(settings, "columns", DEFAULT_COLUMNS),
         prizeSize |-> DictGet(settings, "prize_size", DEFAULT_PRIZE_SIZE),
         prizeColor |-> DictGet(settings, "prize_color", DEFAULT_PRIZE_COLOR)]]

\* WsPassportArgs that never reads the prize: update_passport_text is then
\* called with its default prize=None.
WsPassportArgs_NoPrize(data) ==
    [text |-> DictGet(data, "text", ""),
     prize |-> PyNone,
     formatting |-> DictGet(data, "formatting", <<>>)]

\* websocket_endpoint, msg_type == "passport_update": the same two
WsPassportArgs(data) ==
    [text |-> DictGet(data, "text", ""),
     prize |-> DictGet(data, "prize", ""),
     formatting |-> DictGet(data, "formatting", <<>>)]

WsPassportMessage(settings) ==
    [type |-> "passport_update",
     passport_text |-> settings.passport_text,
     prize_text |-> DictGet(settings, "prize_text", ""),
     formatting |->
        [color |-> DictGet(settings, "text_color", DEFAULT_TEXT_COLOR),
         style |-> DictGet(settings, "text_style", DEFAULT_TEXT_STYLE),
         displayTextSize |-> DictGet(settings, "display_text_size", DEFAULT_DISPLAY_TEXT_SIZE),
         timerSize |-> DictGet(settings, "timer_size", DEFAULT_TIMER_SIZE),
         columns |-> DictGet(settings, "columns", DEFAULT_COLUMNS),
         prizeSize |-> DictGet(settings, "prize_size", DEFAULT_PRIZE_SIZE),
         prizeColor |-> DictGet(settings, "prize_color", DEFAULT_PRIZE_COLOR)]]

\* api_timer_action's broadcast, and websocket_endpoint's for a timer_action
ApiTimerMessage(data) ==
    [type |-> "timer_action",
     action |-> DictGet(data, "action", ""),
     duration |-> DictGet(data, "duration", 0),
     timerSize |-> DictGet(data, "timerSize", 24)]

WsTimerMessage(data) ==
    [type |-> "timer_action",
     action |-> DictGet(data, "action", ""),
     duration |-> DictGet(data, "duration", 0),
     timerSize |-> DictGet(data, "timerSize", 48)]

\* api_upload_logo's and api_delete_logo's broadcast
LogoMessage(logo_url) == [type |-> "logo_update", logo_path |-> logo_url]

\* ------------------------------------------------------ ConnectionManager
\* ConnectionManager.disconnect
disconnect(connections, websocket) ==
    IF websocket \in Range(connections)
    THEN RemoveFirst(connections, websocket)
    ELSE connections

\* ConnectionManager.broadcast's clean-up loop
RECURSIVE DisconnectAll(_, _)
DisconnectAll(connections, disconnected) ==
    IF disconnected = <<>> THEN connections
    ELSE DisconnectAll(disconnect(connections, Head(disconnected)), Tail(disconnected))

\* What a handler does when its action is over: a request returns its
\* response, a WebSocket handler goes back to receive_json().
Resting(p) == IF p \in Conns THEN "receive" ELSE "done"

\* The writes to the store that a handler's action has yet to commit: a
\* passport update writes the text and, when formatting is given, the
\* formatting; a logo upload or delete writes the logo path.
Pending(l) ==
    (CASE l.kind = "passport" -> IF Truthy(l.formatting) THEN 2 ELSE 1
       [] l.kind \in {"upload", "delete"} -> 1
       [] OTHER -> 0) - l.commits

\* One entry of sent[c]: the message, the broadcast it belongs to (NoBid:
\* none) and the writes its action had yet to commit when it was sent.
Entry(message, bid, pending) == [msg |-> message, bid |-> bid, pending |-> pending]

\* One resumption of ConnectionManager.broadcast: the list iterator's next
\* element and the send to it, or, past the end of the list, the clean-up
\* of the connections whose send raised and the return.  before is the
\* content of the list when the broadcast started.
Broadcast(p) ==
    /\ pc[p] = "broadcast"
    /\ LET l == loc[p]
           before == IF l.i = 0 THEN Range(active_connections) ELSE l.before
       IN
       IF l.i < Len(active_connections)
       THEN LET connection == active_connections[l.i + 1] IN
            /\ IF open[connection]
               THEN /\ sent' = [sent EXCEPT ![connection] =
                                  Append(@, Entry(l.message, Bid(p), Pending(l)))]
                    /\ loc' = [loc EXCEPT ![p] = [l EXCEPT !.i = @ + 1, !.before = before]]
               ELSE /\ sent' = sent
                    /\ loc' = [loc EXCEPT ![p] =
                                  [l EXCEPT !.i = @ + 1, !.before = before,
                                            !.disconnected = Append(@, connection)]]
            /\ UNCHANGED <<active_connections, pc, finished>>
       ELSE /\ active_connections' = DisconnectAll(active_connections, l.disconnected)
            /\ finished' = [bid |-> Bid(p), before |-> before,
                            after |-> Range(active_connections),
                            failed |-> Range(l.disconnected)]
            /\ pc' = [pc EXCEPT ![p] = Resting(p)]
            /\ loc' = [loc EXCEPT ![p] = NoLocals]
            /\ sent' = sent
    /\ UNCHANGED <<db, uploads, clock, started, open, hist, registered_at, passports,
                   counters>>

\* ------------------------------------------------------------ database steps
\* The three steps of update_passport_text, update_text_formatting and
\* update_logo_path: the statement's arguments are evaluated (get_utc_now()
\* is read), the worker thread runs UPDATE and COMMIT, get_settings() reads.
Execute(p, at, next) ==
    /\ pc[p] = at
    /\ loc' = [loc EXCEPT ![p].ts = clock]
    /\ pc' = [pc EXCEPT ![p] = next]
    /\ UNCHANGED <<db, uploads, clock, started, active_connections, open, sent,
                   hist, registered_at, finished, passports, counters>>

Commit(p, at, next, changes) ==
    /\ pc[p] = at
    /\ db' = UpdateSettings(db, changes)
    /\ hist' = Append(hist, db')
    /\ loc' = [loc EXCEPT ![p].commits = @ + 1]
    /\ pc' = [pc EXCEPT ![p] = next]
    /\ UNCHANGED <<uploads, clock, started, active_connections, open, sent,
                   registered_at, finished, passports, counters>>

\* get_settings() returns to the handler, which runs to its next await:
\* after is [pc, loc], where the handler is then.
Returned(p) == [loc[p] EXCEPT !.settings = get_settings(db)]

Return(p, at, after) ==
    /\ pc[p] = at
    /\ pc' = [pc EXCEPT ![p] = after.pc]
    /\ loc' = [loc EXCEPT ![p] = after.loc]
    /\ UNCHANGED <<db, uploads, clock, started, active_connections, open, sent,
                   hist, registered_at, finished, passports, counters>>

\* ApiAfterPassportText that broadcasts at once, leaving the formatting
\* unwritten
ApiAfterPassportText_BroadcastFirst(l) ==
    [pc |-> "broadcast", loc |-> [l EXCEPT !.message = ApiPassportMessage(l.settings)]]

\* api_update_passport after `settings = await update_passport_text(...)`
\* and after `settings = await update_text_formatting(formatting)`
ApiAfterPassportText(l) ==
    IF Truthy(l.formatting)
    THEN [pc |-> "utf_exec", loc |-> l]
    ELSE [pc |-> "broadcast", loc |-> [l EXCEPT !.message = ApiPassportMessage(l.settings)]]

ApiAfterTextFormatting(l) ==
    [pc |-> "broadcast", loc |-> [l EXCEPT !.message = ApiPassportMessage(l.settings)]]

\* websocket_endpoint, msg_type == "passport_update", after the same two
WsAfterPassportText(l) ==
    IF Truthy(l.formatting)
    THEN [pc |-> "utf_exec", loc |-> l]
    ELSE [pc |-> "broadcast", loc |-> [l EXCEPT !.message = WsPassportMessage(l.settings)]]

WsAfterTextFormatting(l) ==
    [pc |-> "broadcast", loc |-> [l EXCEPT !.message = WsPassportMessage(l.settings)]]

\* api_upload_logo and api_delete_logo after `await update_logo_path(...)`
AfterLogoPath(l) ==
    [pc |-> "broadcast", loc |-> [l EXCEPT !.message = LogoMessage(l.path)]]

UpdatePassportTextExecute(p) == Execute(p, "upt_exec", "upt_commit")
UpdatePassportTextCommit(p) ==
    Commit(p, "upt_commit", "upt_read",
           PassportTextChanges(loc[p].text, loc[p].prize, loc[p].ts))
UpdatePassportTextReturn(p) ==
    IF p \in Https
    THEN Return(p, "upt_read", ApiAfterPassportText(Returned(p)))
    ELSE Return(p, "upt_read", WsAfterPassportText(Returned(p)))

UpdateTextFormattingExecute(p) == Execute(p, "utf_exec", "utf_commit")
UpdateTextFormattingCommit(p) ==
    Commit(p, "utf_commit", "utf_read",
           TextFormattingChanges(loc[p].formatting, loc[p].ts))
UpdateTextFormattingReturn(p) ==
    IF p \in Https
    THEN Return(p, "utf_read", ApiAfterTextFormatting(Returned(p)))
    ELSE Return(p, "utf_read", WsAfterTextFormatting(Returned(p)))

UpdateLogoPathExecute(p) == Execute(p, "ulp_exec", "ulp_commit")
UpdateLogoPathCommit(p) ==
    Commit(p, "ulp_commit", "ulp_read", LogoPathChanges(loc[p].path, loc[p].ts))
UpdateLogoPathReturn(p) == Return(p, "ulp_read", AfterLogoPath(Returned(p)))

\* ------------------------------------------------------ websocket_endpoint
\* Handlers take the websockets, and the requests, in the order of their
\* numbers (which of two unused ones comes first makes no difference).
NextConn(c) == \A other \in Conns : other < c => pc[other] # "new"
NextReq(h) == \A other \in Https : other < h => pc[other] # "idle"

\* The admin actions received so far
Received == Cardinality({h \in Https : pc[h] # "idle"}) + counters.msgs

\* A client opens a WebSocket to /ws: websocket_endpoint starts and
\* suspends in manager.connect, at websocket.accept().
ClientConnect(c) ==
    /\ started
    /\ pc[c] = "new"
    /\ NextConn(c)
    /\ open' = [open EXCEPT ![c] = TRUE]
    /\ pc' = [pc EXCEPT ![c] = "accept"]
    /\ UNCHANGED <<db, uploads, clock, started, active_connections, loc, sent,
                   hist, registered_at, finished, passports, counters>>

\* The client closes its end (or the network does).
ClientClose(c) ==
    /\ open[c]
    /\ open' = [open EXCEPT ![c] = FALSE]
    /\ UNCHANGED <<db, uploads, clock, started, active_connections, pc, loc, sent,
                   hist, registered_at, finished, passports, counters>>

\* manager.connect after accept(): the websocket is appended to the list
\* and get_settings() is awaited.  accept() raises when the client is gone.
Connect(c) ==
    /\ pc[c] = "accept"
    /\ IF open[c]
       THEN /\ active_connections' = Append(active_connections, c)
            /\ registered_at' = [registered_at EXCEPT ![c] = Len(hist)]
            /\ pc' = [pc EXCEPT ![c] = "get_settings"]
       ELSE /\ pc' = [pc EXCEPT ![c] = "raised"]
            /\ UNCHANGED <<active_connections, registered_at>>
    /\ UNCHANGED <<db, uploads, clock, started, open, loc, sent, hist, finished,
                   passports, counters>>

\* settings = await get_settings()
WsGetSettings(c) ==
    /\ pc[c] = "get_settings"
    /\ loc' = [loc EXCEPT ![c].settings = get_settings(db)]
    /\ pc' = [pc EXCEPT ![c] = "send_init"]
    /\ UNCHANGED <<db, uploads, clock, started, active_connections, open, sent,
                   hist, registered_at, finished, passports, counters>>

\* await websocket.send_json({"type": "init", ...}): outside the try, so
\* an exception ends the handler with the websocket still in the list.
WsSendInit(c) ==
    /\ pc[c] = "send_init"
    /\ IF open[c]
       THEN /\ sent' = [sent EXCEPT ![c] =
                          Append(@, Entry(InitMessage(loc[c].settings), NoBid, 0))]
            /\ pc' = [pc EXCEPT ![c] = "receive"]
       ELSE /\ pc' = [pc EXCEPT ![c] = "raised"]
            /\ sent' = sent
    /\ loc' = [loc EXCEPT ![c] = NoLocals]
    /\ UNCHANGED <<db, uploads, clock, started, active_connections, open, hist,
                   registered_at, finished, passports, counters>>

\* receive_json() raises WebSocketDisconnect: manager.disconnect(websocket)
WsDisconnect(c) ==
    /\ pc[c] = "receive"
    /\ ~open[c]
    /\ active_connections' = disconnect(active_connections, c)
    /\ pc' = [pc EXCEPT ![c] = "done"]
    /\ UNCHANGED <<db, uploads, clock, started, open, loc, sent, hist,
                   registered_at, finished, passports, counters>>

Receiving(c) ==
    /\ pc[c] = "receive"
    /\ open[c]
    /\ Received < MaxActions

\* receive_json() returns {"type": "passport_update", ...}
WsPassportUpdate(c, data) ==
    /\ Receiving(c)
    /\ LET args == WsPassportArgs(data) IN
       /\ loc' = [loc EXCEPT ![c] =
                    [NoLocals EXCEPT !.kind = "passport", !.text = args.text,
                                     !.prize = args.prize, !.formatting = args.formatting,
                                     !.n = counters.msgs + 1]]
       /\ passports' = passports \cup {args}
    /\ pc' = [pc EXCEPT ![c] = "upt_exec"]
    /\ counters' = [counters EXCEPT !.msgs = @ + 1]
    /\ UNCHANGED <<db, uploads, clock, started, active_connections, open, sent,
                   hist, registered_at, finished>>

\* receive_json() returns {"type": "timer_action", ...}
WsTimerAction(c, data) ==
    /\ Receiving(c)
    /\ loc' = [loc EXCEPT ![c] =
                 [NoLocals EXCEPT !.kind = "timer", !.message = WsTimerMessage(data),
                                  !.n = counters.msgs + 1]]
    /\ pc' = [pc EXCEPT ![c] = "broadcast"]
    /\ counters' = [counters EXCEPT !.msgs = @ + 1]
    /\ UNCHANGED <<db, uploads, clock, started, active_connections, open, sent,
                   hist, registered_at, finished, passports>>

\* receive_json() returns an object of another type, or of none: ignored
WsOtherMessage(c) ==
    /\ Receiving(c)
    /\ counters' = [counters EXCEPT !.msgs = @ + 1]
    /\ UNCHANGED <<db, uploads, clock, started, active_connections, open, pc, loc,
                   sent, hist, registered_at, finished, passports>>

\* receive_json() raises on text that is no JSON, or returns a value with
\* no .get (a list, a number): `except Exception` disconnects, the handler
\* returns and the server closes the websocket.
WsBadMessage(c) ==
    /\ Receiving(c)
    /\ active_connections' = disconnect(active_connections, c)
    /\ pc' = [pc EXCEPT ![c] = "done"]
    /\ open' = [open EXCEPT ![c] = FALSE]
    /\ counters' = [counters EXCEPT !.msgs = @ + 1]
    /\ UNCHANGED <<db, uploads, clock, started, loc, sent, hist, registered_at,
                   finished, passports>>

\* ------------------------------------------------------------ HTTP handlers
Arriving(h) ==
    /\ started
    /\ pc[h] = "idle"
    /\ NextReq(h)
    /\ Received < MaxActions

\* POST /api/passport
ApiUpdatePassport(h, data) ==
    /\ Arriving(h)
    /\ LET args == ApiPassportArgs(data) IN
       /\ loc' = [loc EXCEPT ![h] =
                    [NoLocals EXCEPT !.kind = "passport", !.text = args.text,
                                     !.prize = args.prize, !.formatting = args.formatting]]
       /\ passports' = passports \cup {args}
    /\ pc' = [pc EXCEPT ![h] = "upt_exec"]
    /\ UNCHANGED <<db, uploads, clock, started, active_connections, open, sent,
                   hist, registered_at, finished, counters>>

\* ApiTimerAction that also stores the timer size it broadcasts
ApiTimerAction_Saves(h, data) ==
    /\ Arriving(h)
    /\ loc' = [loc EXCEPT ![h] =
                 [NoLocals EXCEPT !.kind = "timer", !.message = ApiTimerMessage(data)]]
    /\ pc' = [pc EXCEPT ![h] = "broadcast"]
    /\ db' = UpdateSettings(db, [timer_size |-> ApiTimerMessage(data).timerSize])
    /\ hist' = Append(hist, db')
    /\ UNCHANGED <<uploads, clock, started, active_connections, open, sent,
                   registered_at, finished, passports, counters>>

\* POST /api/timer
ApiTimerAction(h, data) ==
    /\ Arriving(h)
    /\ loc' = [loc EXCEPT ![h] =
                 [NoLocals EXCEPT !.kind = "timer", !.message = ApiTimerMessage(data)]]
    /\ pc' = [pc EXCEPT ![h] = "broadcast"]
    /\ UNCHANGED <<db, uploads, clock, started, active_connections, open, sent,
                   hist, registered_at, finished, passports, counters>>

\* GET /api/settings
ApiGetSettings(h) ==
    /\ Arriving(h)
    /\ loc' = [loc EXCEPT ![h] = [NoLocals EXCEPT !.kind = "get"]]
    /\ pc' = [pc EXCEPT ![h] = "get_read"]
    /\ UNCHANGED <<db, uploads, clock, started, active_connections, open, sent,
                   hist, registered_at, finished, passports, counters>>

ApiGetSettingsReturn(h) ==
    Return(h, "get_read", [pc |-> "done", loc |-> Returned(h)])

\* POST /api/logo: the type and size checks, then get_settings() is awaited
ApiUploadLogo(h, file) ==
    /\ Arriving(h)
    /\ IF file.content_type \notin allowed_types \/ file.size > MAX_LOGO_SIZE_BYTES
       THEN /\ pc' = [pc EXCEPT ![h] = "done"]
            /\ UNCHANGED <<loc, counters>>
       ELSE /\ pc' = [pc EXCEPT ![h] = "upload_read"]
            /\ loc' = [loc EXCEPT ![h] =
                         [NoLocals EXCEPT !.kind = "upload",
                            !.filename = LogoFilename(counters.uuids + 1,
                                                      OrStr(file.ext, ".png"))]]
            /\ counters' = [counters EXCEPT !.uuids = @ + 1]
    /\ UNCHANGED <<db, uploads, clock, started, active_connections, open, sent,
                   hist, registered_at, finished, passports>>

\* current_settings = await get_settings(); the new file is opened
UploadGetSettings(h) ==
    /\ pc[h] = "upload_read"
    /\ loc' = [loc EXCEPT ![h].old_logo_path =
                 DictGet(get_settings(db), "logo_path", <<>>)]
    /\ pc' = [pc EXCEPT ![h] = "upload_write"]
    /\ UNCHANGED <<db, uploads, clock, started, active_connections, open, sent,
                   hist, registered_at, finished, passports, counters>>

\* await f.write(content)
UploadWrite(h) ==
    /\ pc[h] = "upload_write"
    /\ uploads' = uploads \cup {loc[h].filename}
    /\ pc' = [pc EXCEPT ![h] = "upload_remove"]
    /\ UNCHANGED <<db, clock, started, active_connections, open, loc, sent,
                   hist, registered_at, finished, passports, counters>>

\* os.remove of the file a stored logo path names, when it exists
RemoveLogoFile(files, logo_path) ==
    IF Truthy(logo_path)
    THEN LET filename == StripUploads(logo_path) IN
         IF filename \in files THEN files \ {filename} ELSE files
    ELSE files

\* The old logo file is removed; update_logo_path(logo_url) is awaited
UploadRemoveOld(h) ==
    /\ pc[h] = "upload_remove"
    /\ uploads' = RemoveLogoFile(uploads, loc[h].old_logo_path)
    /\ loc' = [loc EXCEPT ![h].path = LogoUrl(loc[h].filename)]
    /\ pc' = [pc EXCEPT ![h] = "ulp_exec"]
    /\ UNCHANGED <<db, clock, started, active_connections, open, sent,
                   hist, registered_at, finished, passports, counters>>

\* DELETE /api/logo
ApiDeleteLogo(h) ==
    /\ Arriving(h)
    /\ loc' = [loc EXCEPT ![h] = [NoLocals EXCEPT !.kind = "delete"]]
    /\ pc' = [pc EXCEPT ![h] = "delete_read"]
    /\ UNCHANGED <<db, uploads, clock, started, active_connections, open, sent,
                   hist, registered_at, finished, passports, counters>>

\* settings = await get_settings()
DeleteGetSettings(h) ==
    /\ pc[h] = "delete_read"
    /\ loc' = [loc EXCEPT ![h].old_logo_path =
                 DictGet(get_settings(db), "logo_path", <<>>)]
    /\ pc' = [pc EXCEPT ![h] = "delete_remove"]
    /\ UNCHANGED <<db, uploads, clock, started, active_connections, open, sent,
                   hist, registered_at, finished, passports, counters>>

\* The current logo file is removed; update_logo_path("") is awaited
DeleteRemove(h) ==
    /\ pc[h] = "delete_remove"
    /\ uploads' = RemoveLogoFile(uploads, loc[h].old_logo_path)
    /\ loc' = [loc EXCEPT ![h].path = <<>>]
    /\ pc' = [pc EXCEPT ![h] = "ulp_exec"]
    /\ UNCHANGED <<db, clock, started, active_connections, open, sent,
                   hist, registered_at, finished, passports, counters>>

\* ------------------------------------------------------- clock and lifespan
Tick ==
    /\ clock < MaxClock
    /\ clock' = clock + 1
    /\ UNCHANGED <<db, uploads, started, active_connections, open, pc, loc, sent,
                   hist, registered_at, finished, passports, counters>>

\* lifespan: await init_db() before the first request is served
Lifespan ==
    /\ ~started
    /\ db' = init_db(db, clock)
    /\ hist' = Append(hist, db')
    /\ started' = TRUE
    /\ counters' = [counters EXCEPT !.boots = @ + 1]
    /\ UNCHANGED <<uploads, clock, active_connections, open, pc, loc, sent,
                   registered_at, finished, passports>>

\* The process stops and is started again on the same database: what was
\* in memory is gone, the handlers that were running with it.
Restart ==
    /\ started
    /\ counters.boots < MaxBoots
    /\ started' = FALSE
    /\ active_connections' = <<>>
    /\ open' = [c \in Conns |-> FALSE]
    /\ pc' = [p \in Procs |-> IF pc[p] \in {"new", "idle"} THEN pc[p] ELSE "done"]
    /\ loc' = [p \in Procs |-> NoLocals]
    /\ UNCHANGED <<db, uploads, clock, sent, hist, registered_at, finished, passports,
                   counters>>

\* ---------------------------------------------------- one handler, alone
\* api_update_passport from its first line to its broadcast with no other
\* handler running: the database it leaves, the message it broadcasts and
\* the connections the broadcast goes to.
ApiPassportRun(d, connections, data, now) ==
    LET args == ApiPassportArgs(data)
        d1 == UpdateSettings(d, PassportTextChanges(args.text, args.prize, now))
        then1 == ApiAfterPassportText(
                    [NoLocals EXCEPT !.formatting = args.formatting,
                                     !.settings = get_settings(d1)])
        d2 == IF then1.pc = "utf_exec"
              THEN UpdateSettings(d1, TextFormattingChanges(args.formatting, now))
              ELSE d1
        then2 == IF then1.pc = "utf_exec"
                 THEN ApiAfterTextFormatting([then1.loc EXCEPT !.settings = get_settings(d2)])
                 ELSE then1
    IN [db |-> d2, message |-> then2.loc.message, to |-> Range(connections)]

\* websocket_endpoint's passport_update branch, likewise
WsPassportRun(d, connections, data, now) ==
    LET args == WsPassportArgs(data)
        d1 == UpdateSettings(d, PassportTextChanges(args.text, args.prize, now))
        then1 == WsAfterPassportText(
                    [NoLocals EXCEPT !.formatting = args.formatting,
                                     !.settings = get_settings(d1)])
        d2 == IF then1.pc = "utf_exec"
              THEN UpdateSettings(d1, TextFormattingChanges(args.formatting, now))
              ELSE d1
        then2 == IF then1.pc = "utf_exec"
                 THEN WsAfterTextFormatting([then1.loc EXCEPT !.settings = get_settings(d2)])
                 ELSE then1
    IN [db |-> d2, message |-> then2.loc.message, to |-> Range(connections)]

\* ----------------------------------------------------------- specifications
ConnectionSteps ==
    \E c \in Conns :
        \/ ClientConnect(c)
        \/ ClientClose(c)
        \/ Connect(c)
        \/ WsGetSettings(c)
        \/ WsSendInit(c)
        \/ WsDisconnect(c)

WsPassportSteps == \E c \in Conns : \E data \in PassportDatas : WsPassportUpdate(c, data)

WsTimerSteps ==
    \E c \in Conns :
        \/ \E data \in TimerDatas : WsTimerAction(c, data)
        \/ WsOtherMessage(c)
        \/ WsBadMessage(c)

PassportSteps ==
    \/ \E h \in Https : \E data \in PassportDatas : ApiUpdatePassport(h, data)
    \/ \E p \in Procs :
        \/ UpdatePassportTextExecute(p)
        \/ UpdatePassportTextCommit(p)
        \/ UpdatePassportTextReturn(p)
        \/ UpdateTextFormattingExecute(p)
        \/ UpdateTextFormattingCommit(p)
        \/ UpdateTextFormattingReturn(p)

TimerSteps == \E h \in Https : \E data \in TimerDatas : ApiTimerAction(h, data)

LogoSteps ==
    \E h \in Https :
        \/ \E file \in UploadFiles : ApiUploadLogo(h, file)
        \/ UploadGetSettings(h)
        \/ UploadWrite(h)
        \/ UploadRemoveOld(h)
        \/ ApiDeleteLogo(h)
        \/ DeleteGetSettings(h)
        \/ DeleteRemove(h)
        \/ UpdateLogoPathExecute(h)
        \/ UpdateLogoPathCommit(h)
        \/ UpdateLogoPathReturn(h)

BroadcastSteps == \E p \in Procs : Broadcast(p)

DisplaySteps ==
    \E c \in Displays :
        \/ ClientConnect(c)
        \/ ClientClose(c)
        \/ Connect(c)
        \/ WsGetSettings(c)
        \/ WsSendInit(c)
        \/ WsDisconnect(c)

\* Displays connect and leave while the admin edits the passport and the logo.
Next ==
    \/ DisplaySteps
    \/ WsPassportSteps
    \/ PassportSteps
    \/ LogoSteps
    \/ BroadcastSteps

Spec == InitServing /\ [][Next]_vars

\* Displays connect and leave while timer actions are broadcast.
NextRegistry ==
    \/ ConnectionSteps
    \/ WsTimerSteps
    \/ TimerSteps
    \/ BroadcastSteps

SpecRegistry == InitServing /\ [][NextRegistry]_vars

\* Two requests update the store while the clock runs.
NextClock ==
    \/ Tick
    \/ PassportSteps
    \/ LogoSteps
    \/ BroadcastSteps

SpecClock == InitServing /\ [][NextClock]_vars

SettingsSteps ==
    \E h \in Https :
        \/ ApiGetSettings(h)
        \/ ApiGetSettingsReturn(h)

\* The process starts on a database an earlier run left, serves requests
\* that read and update the settings, and is restarted.
NextDb ==
    \/ Lifespan
    \/ Restart
    \/ SettingsSteps
    \/ PassportSteps
    \/ LogoSteps
    \/ BroadcastSteps

SpecDb == InitStarting /\ [][NextDb]_vars

\* A display connects and leaves while timer actions are broadcast and the
\* admin edits the passport.
NextTimer ==
    \/ DisplaySteps
    \/ WsTimerSteps
    \/ TimerSteps
    \/ PassportSteps
    \/ BroadcastSteps

SpecTimer == InitServing /\ [][NextTimer]_vars

\* ------------------------------------------------------------------ claims
StateChanges == {"passport_update", "timer_action", "logo_update"}

\* How many times the message of broadcast bid was sent on websocket c
TimesSent(c, bid) == Cardinality({k \in DOMAIN sent[c] : sent[c][k].bid = bid})

\* C1: when a broadcast has returned, every connection that was in the
\* registry when it started, is still in it at its end and whose send did
\* not fail has been sent the broadcast's message exactly once.
C1_BroadcastSendsOnce ==
    finished.bid # NoBid =>
        \A c \in (finished.before \cap finished.after) \ finished.failed :
            TimesSent(c, finished.bid) = 1

\* C3: on every connection no passport_update, timer_action or logo_update
\* message is sent before the connection's init message.
C3_InitIsFirst ==
    \A c \in Conns : \A k \in DOMAIN sent[c] :
        sent[c][k].msg.type \in StateChanges =>
            \E j \in 1 .. (k - 1) : sent[c][j].msg.type = "init"

\* C8: a websocket whose handler has terminated, for whatever reason, is
\* not in active_connections, and no websocket is in the list twice.
C8_OnlyLiveConnections ==
    /\ \A c \in Conns : pc[c] \in {"done", "raised"} => c \notin Range(active_connections)
    /\ \A j, k \in DOMAIN active_connections :
          j # k => active_connections[j] # active_connections[k]

\* What a display shows after the messages of log: per field, the value of
\* the last init, passport_update or logo_update.
NoView == [passport_text |-> "", prize_text |-> "", logo_path |-> <<>>, formatting |-> <<>>]

RECURSIVE ViewAfter(_, _)
ViewAfter(view, log) ==
    IF log = <<>> THEN view
    ELSE LET m == Head(log).msg IN
         ViewAfter(
            CASE m.type = "init" ->
                    [passport_text |-> m.passport_text, prize_text |-> m.prize_text,
                     logo_path |-> m.logo_path, formatting |-> m.formatting]
              [] m.type = "passport_update" ->
                    [view EXCEPT !.passport_text = m.passport_text,
                                 !.prize_text = m.prize_text,
                                 !.formatting = m.formatting]
              [] m.type = "logo_update" -> [view EXCEPT !.logo_path = m.logo_path]
              [] OTHER -> view,
            Tail(log))

View(c) == ViewAfter(NoView, sent[c])

\* What a display shows that is sent the store's content now
StoreView == ViewAfter(NoView, <<Entry(InitMessage(get_settings(db)), NoBid, 0)>>)

\* No handler is in the middle of an action or of a connect.
Quiescent == \A p \in Procs : pc[p] \in {"new", "idle", "receive", "done", "raised"}

\* C2: once every action in flight has finished, every connected client
\* (its handler is receiving, its end is open, so it got all that was sent
\* to it) shows the content of the settings store.
C2_DisplaysAreSynchronized ==
    Quiescent =>
        \A c \in Conns : (pc[c] = "receive" /\ open[c]) => View(c) = StoreView

Row == CHOOSE r \in db.rows : r.id = 1

\* The nine columns a passport update with these arguments writes
WrittenBy(args) ==
    LET text == PassportTextChanges(args.text, args.prize, 0)
        formatting == TextFormattingChanges(args.formatting, 0)
    IN [col \in (DOMAIN text \cup DOMAIN formatting) \ {"updated_at"} |->
            IF col \in DOMAIN text THEN text[col] ELSE formatting[col]]

\* C10: when passport updates, each with non-empty formatting, have all
\* completed, the store's passport_text, prize_text and seven formatting
\* columns are together the values of one of these requests (the claim
\* names the one that wrote last; already "one of them" fails).
C10_LastWriteWins ==
    ( /\ passports # {}
      /\ \A args \in passports : Truthy(args.formatting)
      /\ \A p \in Procs : loc[p].kind # "passport" )
    => \E args \in passports :
          \A col \in DOMAIN WrittenBy(args) : Row[col] = WrittenBy(args)[col]

\* C7: every committed update sets updated_at to the timestamp its call
\* read, and the stored updated_at never decreases.
C7_UpdatedAtMonotonic ==
    [][ /\ Row'.updated_at >= Row.updated_at
        /\ db' # db /\ started =>
              \E p \in Procs : pc'[p] # pc[p] /\ Row'.updated_at = loc[p].ts ]_vars

\* The row of a committed database state, and the connection's init messages
RowOf(d) == CHOOSE r \in d.rows : r.id = 1
Inits(c) == {k \in DOMAIN sent[c] : sent[c][k].msg.type = "init"}

\* The handler of c has got past its init send.
PastInit(c) == pc[c] \notin {"new", "accept", "get_settings", "send_init", "raised"}

\* The init message m carries exactly the values of row r.
CarriesStored(m, r) ==
    /\ m.passport_text = r.passport_text
    /\ m.prize_text = r.prize_text
    /\ m.logo_path = r.logo_path
    /\ m.formatting.color = r.text_color
    /\ m.formatting.style = r.text_style
    /\ m.formatting.displayTextSize = r.display_text_size
    /\ m.formatting.timerSize = r.timer_size
    /\ m.formatting.columns = r.columns
    /\ m.formatting.prizeSize = r.prize_size
    /\ m.formatting.prizeColor = r.prize_color
    /\ DOMAIN m.formatting =
          {"color", "style", "displayTextSize", "timerSize", "columns",
           "prizeSize", "prizeColor"}

\* The same, but an empty text_color or text_style and a zero
\* display_text_size or timer_size are carried as "#FFFFFF", "bold", 72, 48.
CarriesReported(m, r) ==
    /\ m.passport_text = r.passport_text
    /\ m.prize_text = r.prize_text
    /\ m.logo_path = r.logo_path
    /\ m.formatting.color = (IF r.text_color = "" THEN "#FFFFFF" ELSE r.text_color)
    /\ m.formatting.style = (IF r.text_style = "" THEN "bold" ELSE r.text_style)
    /\ m.formatting.displayTextSize =
          (IF r.display_text_size = 0 THEN 72 ELSE r.display_text_size)
    /\ m.formatting.timerSize = (IF r.timer_size = 0 THEN 48 ELSE r.timer_size)
    /\ m.formatting.columns = r.columns
    /\ m.formatting.prizeSize = r.prize_size
    /\ m.formatting.prizeColor = r.prize_color
    /\ DOMAIN m.formatting =
          {"color", "style", "displayTextSize", "timerSize", "columns",
           "prizeSize", "prizeColor"}

\* C4 as stated: a client whose handler got past the init send has been
\* sent exactly one init (any other none), and the init carries the values
\* the store held at one moment at or after the client's registration.
C4_InitCarriesStoredValues ==
    \A c \in Conns :
        /\ Cardinality(Inits(c)) = (IF PastInit(c) THEN 1 ELSE 0)
        /\ \A k \in Inits(c) : \E v \in registered_at[c] .. Len(hist) :
              CarriesStored(sent[c][k].msg, RowOf(hist[v]))

\* C4 amended: the same, the init carrying the values as get_settings
\* reports them, with the defaults in place of an empty text_color or
\* text_style and of a zero display_text_size or timer_size.
C4_InitIsOneSnapshot ==
    \A c \in Conns :
        /\ Cardinality(Inits(c)) = (IF PastInit(c) THEN 1 ELSE 0)
        /\ \A k \in Inits(c) : \E v \in registered_at[c] .. Len(hist) :
              CarriesReported(sent[c][k].msg, RowOf(hist[v]))

\* A client was sent its init with a snapshot taken after a write that
\* followed its registration, the row holding an empty color and a zero
\* timer size.
C4_Witness ==
    \E c \in Conns : \E k \in Inits(c) : \E v \in (registered_at[c] + 1) .. Len(hist) :
        /\ PastInit(c)
        /\ RowOf(hist[v]).text_color = ""
        /\ RowOf(hist[v]).timer_size = 0
        /\ CarriesReported(sent[c][k].msg, RowOf(hist[v]))

\* C5: from the same store, registry and clock, and for the same body,
\* POST /api/passport and a WebSocket passport_update leave the same
\* database, broadcast the same message and broadcast it to the same
\* connections.
C5_HttpAndWebSocketAgree ==
    \A data \in PassportDatas :
        ApiPassportRun(db, active_connections, data, clock)
            = WsPassportRun(db, active_connections, data, clock)

\* A display has been sent the passport_update of a request and that of a
\* WebSocket message, the two carrying the same content.
C5_Witness ==
    \E c \in Conns : \E j, k \in DOMAIN sent[c] :
        /\ sent[c][j].msg.type = "passport_update"
        /\ sent[c][j].bid.by \in Https
        /\ sent[c][k].bid.by \in Conns
        /\ sent[c][k].msg = sent[c][j].msg
        /\ Row.text_color # DB_DEFAULT_TEXT_COLOR

\* C6: whenever a passport_update or logo_update message has been sent to
\* a client, the action that broadcast it had committed every write it
\* makes to the store before that send.
C6_WriteBeforeBroadcast ==
    \A c \in Conns : \A k \in DOMAIN sent[c] :
        sent[c][k].msg.type \in {"passport_update", "logo_update"} =>
            sent[c][k].pending = 0

\* A display has been sent the message of a passport update that wrote
\* text and formatting and the message of a logo upload.
C6_Witness ==
    \E c \in Conns : \E j, k \in DOMAIN sent[c] :
        /\ sent[c][j].msg.type = "passport_update"
        /\ sent[c][j].msg.passport_text = "T1"
        /\ sent[c][j].msg.formatting.columns = 2
        /\ sent[c][k].msg.type = "logo_update"
        /\ sent[c][k].msg.logo_path # <<>>

\* C9: once init_db has run the settings table holds exactly one row, the
\* row with id 1; and init_db run on an existing table keeps every stored
\* value and gives each column it adds that column's default.
AddedDefaults ==
    [text_color |-> "#FFFFFF", text_style |-> "bold", display_text_size |-> 72,
     timer_size |-> 48, prize_text |-> "", columns |-> 1, prize_size |-> 72,
     prize_color |-> "#F97316"]

C9_OneRowAndMigrationKeepsValues ==
    /\ [](started => (Cardinality(db.rows) = 1 /\ \A r \in db.rows : r.id = 1))
    /\ [][ (~started /\ started' /\ db.columns # {}) =>
              /\ DOMAIN AddedDefaults \cup db.columns = db'.columns
              /\ \A r \in db.rows : \E after \in db'.rows :
                    /\ \A col \in db.columns : after[col] = r[col]
                    /\ \A col \in db'.columns \ db.columns : after[col] = AddedDefaults[col] ]_vars

\* The process has been restarted on a table that first lacked prize_size:
\* the row keeps the text a request wrote and the old color.
C9_Witness ==
    /\ started
    /\ counters.boots = 2
    /\ Row.passport_text = "T3"
    /\ Row.text_color = "#000000"
    /\ Row.prize_size = 72

\* C11: when a broadcast in which a send raised returns, it returns to its
\* caller without raising, every connection that was registered when it
\* started, is still registered and whose send did not raise has been sent
\* the message, and the return has removed from active_connections exactly
\* the connections whose send raised.
C11_FailedSendIsContained ==
    [][ \A p \in Procs :
          (pc[p] = "broadcast" /\ pc'[p] # "broadcast" /\ loc[p].disconnected # <<>>) =>
              LET failed == Range(loc[p].disconnected) IN
              /\ pc'[p] = Resting(p)
              /\ \A c \in (finished'.before \cap Range(active_connections)) \ failed :
                    TimesSent(c, Bid(p)) >= 1
              /\ Range(active_connections') = Range(active_connections) \ failed ]_vars

\* C12: two connections that were both sent the messages of the same two
\* broadcasts were sent them in the same order.
C12_SameOrderEverywhere ==
    \A c1, c2 \in Conns :
        \A j1, k1 \in DOMAIN sent[c1] : \A j2, k2 \in DOMAIN sent[c2] :
            ( /\ sent[c1][j1].bid # NoBid
              /\ sent[c1][k1].bid # NoBid
              /\ sent[c1][j1].bid # sent[c1][k1].bid
              /\ sent[c2][j2].bid = sent[c1][j1].bid
              /\ sent[c2][k2].bid = sent[c1][k1].bid
              /\ j1 < k1 ) => j2 < k2

\* C13: every timer_action message sent for a body that has no timerSize
\* carries that body's action and duration and the timer size
\* DEFAULT_TIMER_SIZE, by whichever path the body arrived.
C13_TimerSizeDefault ==
    \A c \in Conns : \A k \in DOMAIN sent[c] :
        LET m == sent[c][k].msg IN
        m.type = "timer_action" =>
            \A data \in TimerDatas :
                ("timerSize" \notin DOMAIN data /\ m.action = data.action) =>
                    m = [type |-> "timer_action", action |-> data.action,
                         duration |-> data.duration, timerSize |-> DEFAULT_TIMER_SIZE]

\* C14: no step of a timer action, from its arrival to the return of its
\* broadcast, changes the database, its history of commits or the uploads
\* directory; what it sends is its timer_action message and goes to
\* connections that are in the registry.
C14_TimerLeavesStoreAlone ==
    [][ \A p \in Procs :
          ( /\ loc[p].kind = "timer" \/ loc'[p].kind = "timer"
            /\ pc'[p] # pc[p] \/ loc'[p] # loc[p] ) =>
              /\ db' = db
              /\ hist' = hist
              /\ uploads' = uploads
              /\ \A c \in Conns : sent'[c] # sent[c] =>
                    /\ c \in Range(active_connections)
                    /\ Len(sent'[c]) = Len(sent[c]) + 1
                    /\ sent'[c][Len(sent'[c])].msg.type = "timer_action" ]_vars

\* A timer action is sending its message to a display that got its init
\* before, while the store holds a timer size that a passport update wrote
\* and that is not the one of the message.
C14_Witness ==
    \E p \in Procs : \E c \in Conns :
        /\ loc[p].kind = "timer"
        /\ pc[p] = "broadcast"
        /\ TimesSent(c, Bid(p)) = 1
        /\ Inits(c) # {}
        /\ Len(hist) > 1
        /\ Row.timer_size # 48
        /\ Row.timer_size # loc[p].message.timerSize
        /\ hist[Len(hist)] = db

\* The seven formatting columns of row r as they are, as get_settings
\* reports them, and as a passport update with formatting f is to set them
StoredFormatting(r) ==
    [color |-> r.text_color, style |-> r.text_style,
     displayTextSize |-> r.display_text_size, timerSize |-> r.timer_size,
     columns |-> r.columns, prizeSize |-> r.prize_size, prizeColor |-> r.prize_color]

ReportedFormatting(r) ==
    [StoredFormatting(r) EXCEPT
        !.color = IF @ = "" THEN "#FFFFFF" ELSE @,
        !.style = IF @ = "" THEN "bold" ELSE @,
        !.displayTextSize = IF @ = 0 THEN 72 ELSE @,
        !.timerSize = IF @ = 0 THEN 48 ELSE @]

SuppliedOrDefault(f) ==
    [color |-> IF "color" \in DOMAIN f THEN f.color ELSE "#FFFFFF",
     style |-> IF "style" \in DOMAIN f THEN f.style ELSE "bold",
     displayTextSize |-> IF "displayTextSize" \in DOMAIN f THEN f.displayTextSize ELSE 72,
     timerSize |-> IF "timerSize" \in DOMAIN f THEN f.timerSize ELSE 48,
     columns |-> IF "columns" \in DOMAIN f THEN f.columns ELSE 1,
     prizeSize |-> IF "prizeSize" \in DOMAIN f THEN f.prizeSize ELSE 72,
     prizeColor |-> IF "prizeColor" \in DOMAIN f THEN f.prizeColor ELSE "#F97316"]

\* What both forms of C15 say of the writes of a passport update: the write
\* of the text leaves the seven formatting columns as they are; the update
\* goes on to write the formatting exactly when its formatting is not
\* empty; and that write sets the seven columns to the supplied values,
\* the default where a key is absent.
PassportWrites(p) ==
    /\ (pc[p] = "upt_commit" /\ pc'[p] = "upt_read") =>
          StoredFormatting(Row') = StoredFormatting(Row)
    /\ (pc[p] = "upt_read" /\ pc'[p] # "upt_read") =>
          (pc'[p] = "utf_exec") = (loc[p].formatting # <<>>)
    /\ (pc[p] = "utf_commit" /\ pc'[p] = "utf_read") =>
          StoredFormatting(Row') = SuppliedOrDefault(loc[p].formatting)

\* C15 as stated: the writes are as above, and the formatting of the
\* message that a passport update without formatting goes on to broadcast
\* is the stored formatting.
C15_BroadcastsStoredFormatting ==
    [][ \A p \in Procs :
          /\ PassportWrites(p)
          /\ (pc[p] = "upt_read" /\ pc'[p] = "broadcast") =>
                loc'[p].message.formatting = StoredFormatting(Row) ]_vars

\* C15 amended: the same, the formatting of the message being the stored
\* formatting as get_settings reports it, with the defaults in place of an
\* empty color or style and of a zero displayTextSize or timerSize.
C15_BroadcastsReportedFormatting ==
    [][ \A p \in Procs :
          /\ PassportWrites(p)
          /\ (pc[p] = "upt_read" /\ pc'[p] = "broadcast") =>
                loc'[p].message.formatting = ReportedFormatting(Row) ]_vars

\* A passport update without formatting is about to broadcast over a row
\* whose formatting an earlier update wrote from three keys, two of them
\* empty and zero: columns 3, the defaults elsewhere.
C15_Witness ==
    \E p \in Procs :
        /\ pc[p] = "broadcast"
        /\ loc[p].kind = "passport"
        /\ loc[p].formatting = <<>>
        /\ StoredFormatting(Row) = SuppliedOrDefault(PartFormatting)
        /\ loc[p].message.formatting = ReportedFormatting(Row)
        /\ loc[p].message.formatting # StoredFormatting(Row)

\* C16: the logo_path of the settings row is empty or is "/uploads/"
\* followed by the name of a file that is in the uploads directory.
C16_LogoFileExists ==
    Row.logo_path # <<>> =>
        \E filename \in uploads : Row.logo_path = <<Lit("/uploads/")>> \o filename

====
